---- MODULE Spec2Model ----
(***************************************************************************)
(* Go Responsiveness: the test driver (main), the load-generating          *)
(* connection collection (lgc) and the helpers of package utilities.       *)
(*                                                                         *)
(* Durations are integers in milliseconds (Duration.Seconds() * 1000), so  *)
(* 60 / seconds becomes 60000 / milliseconds.  Floating-point quotients    *)
(* are kept as exact fractions [num, den]; den = 0 stands for a result     *)
(* that is not a finite number.                                            *)
(***************************************************************************)
EXTENDS Integers, Sequences, FiniteSets

(* ------------------------------------------------------------------ *)
(* Sizes of the model                                                  *)
(* ------------------------------------------------------------------ *)

\* Probe measurements the orchestrator consumes at most in one run.
MaxProbes == 3
\* Calls of cancel functions explored when the scopes are cancelled freely.
MaxCancelCalls == 3
\* Connections a collection holds at most.
MaxPool == 3
\* Samples added to a quality attenuation fed with arbitrary samples.
MaxSamples == 3
\* Measurements given to a stabilizer on its own, and the largest I and K.
MaxFed == 8
MaxI == 2
MaxK == 2
MaxElements == 3
MaxIdCalls == 4
MaxTimeout == 2

\* TestManySamples adds the ramp 0.0001, 0.0002, ..., 15.9999; here the ramp
\* has steps of 0.1 s: 0.1, 0.2, ..., 15.9, that is RampEnd samples.
RampEnd == 159

\* constants.InstantaneousThroughputMeasurementCount,
\* constants.InstantaneousProbeMeasurementCount,
\* constants.InstantaneousMovingAverageStabilityCount and
\* constants.StabilityStandardDeviation (as the fraction SNum / SDen):
\* package constants is not among the sources, the values are small ones.
throughputI == 1
probeI == 1
K == 2
SNum == 1
SDen == 20

(* ------------------------------------------------------------------ *)
(* Sequences of numbers                                                *)
(* ------------------------------------------------------------------ *)

RECURSIVE SumTo(_, _)
SumTo(s, n) == IF n = 0 THEN 0 ELSE s[n] + SumTo(s, n - 1)

\* The sum of the elements of s.
SumSeq(s) == SumTo(s, Len(s))

RECURSIVE SumSquaresTo(_, _)
SumSquaresTo(s, n) == IF n = 0 THEN 0 ELSE s[n] * s[n] + SumSquaresTo(s, n - 1)

\* The sum of the squares of the elements of s.
SumSquares(s) == SumSquaresTo(s, Len(s))

\* s in ascending order: its i-th element is the value with fewer than i
\* elements below it and at least i elements not above it.
Sorted(s) ==
    [i \in 1..Len(s) |->
        CHOOSE v \in {s[j] : j \in 1..Len(s)} :
            /\ Cardinality({j \in 1..Len(s) : s[j] < v}) < i
            /\ Cardinality({j \in 1..Len(s) : s[j] <= v}) >= i]

\* The last n elements of s (all of s when it is shorter).
LastN(s, n) == IF Len(s) <= n THEN s ELSE SubSeq(s, Len(s) - n + 1, Len(s))

\* n copies of x.
Repeat(x, n) == [i \in 1..n |-> x]

(* ------------------------------------------------------------------ *)
(* Fractions                                                           *)
(* ------------------------------------------------------------------ *)

Frac(n, d) == [num |-> n, den |-> d]
NotANumber == Frac(0, 0)
IsNumber(q) == q.den # 0

(* ------------------------------------------------------------------ *)
(* ms: the series of latencies                                         *)
(* ------------------------------------------------------------------ *)

\* A new series without the lowest and the highest percent % of the elements.
DoubleSidedTrim(series, percent) ==
    LET sorted == Sorted(series)
        elementsToTrim == (Len(series) * percent) \div 100
    IN  SubSeq(sorted, elementsToTrim + 1, Len(sorted) - elementsToTrim)

CalculateAverage(series) == Frac(SumSeq(series), Len(series))

\* The p-th percentile (nearest rank) of a non-empty series.
Percentile(series, p) ==
    LET sorted == Sorted(series)
        rank == (Len(series) * p + 99) \div 100
    IN  sorted[IF rank < 1 THEN 1 ELSE rank]

(* ------------------------------------------------------------------ *)
(* qualityattenuation                                                  *)
(* ------------------------------------------------------------------ *)

\* Duration.Seconds(), in tenths of a second: the durations the model feeds
\* to the quality attenuation are multiples of 100 ms.
Seconds(ms) == ms \div 100

\* The offset of 0.1 s and the loss threshold of 15.0 s, in tenths of a second.
offset == 1
latencyEqLossThreshold == 150

\* The empirical distribution holds the live samples themselves.
NewSimpleQualityAttenuation ==
    [numberOfSamples |-> 0, numberOfLosses |-> 0,
     minimumLatency |-> 0, maximumLatency |-> 0,
     offsetSum |-> 0, offsetSumOfSquares |-> 0,
     empiricalDistribution |-> <<>>]

\* The sample that takes part in the minimum and the maximum: a loss does so
\* as the threshold.
Bounded(sample) ==
    IF sample > latencyEqLossThreshold THEN latencyEqLossThreshold ELSE sample

\* A sample equal to the threshold counted as a loss as well.
IsLossFromThreshold(sample) == sample >= latencyEqLossThreshold

\* A sample is a loss when it is above the threshold.
IsLoss(sample) == sample > latencyEqLossThreshold

\* An AddSample that adds a loss to the offset aggregates and to the
\* distribution like any other sample.
AddSampleAggregatesLosses(qa, sample) ==
    IF sample < 0 THEN qa
    ELSE [qa EXCEPT
             !.numberOfSamples = @ + 1,
             !.numberOfLosses = IF IsLoss(sample) THEN @ + 1 ELSE @,
             !.minimumLatency = IF qa.numberOfSamples = 0 \/ Bounded(sample) < @
                                THEN Bounded(sample) ELSE @,
             !.maximumLatency = IF qa.numberOfSamples = 0 \/ Bounded(sample) > @
                                THEN Bounded(sample) ELSE @,
             !.offsetSum = @ + (sample - offset),
             !.offsetSumOfSquares = @ + (sample - offset) * (sample - offset),
             !.empiricalDistribution = Append(@, sample)]

\* An AddSample whose sum of squares takes the sample without the offset.
AddSampleSquaresUnshifted(qa, sample) ==
    IF sample < 0 THEN qa
    ELSE LET first == qa.numberOfSamples = 0
             counted == [qa EXCEPT
                 !.numberOfSamples = @ + 1,
                 !.minimumLatency = IF first \/ Bounded(sample) < @ THEN Bounded(sample) ELSE @,
                 !.maximumLatency = IF first \/ Bounded(sample) > @ THEN Bounded(sample) ELSE @]
         IN  IF IsLoss(sample)
             THEN [counted EXCEPT !.numberOfLosses = @ + 1]
             ELSE [counted EXCEPT
                      !.offsetSum = @ + (sample - offset),
                      !.offsetSumOfSquares = @ + sample * sample,
                      !.empiricalDistribution = Append(@, sample)]

\* AddSample(sample): a negative sample is rejected.
AddSample(qa, sample) ==
    IF sample < 0 THEN qa
    ELSE LET first == qa.numberOfSamples = 0
             counted == [qa EXCEPT
                 !.numberOfSamples = @ + 1,
                 !.minimumLatency = IF first \/ Bounded(sample) < @ THEN Bounded(sample) ELSE @,
                 !.maximumLatency = IF first \/ Bounded(sample) > @ THEN Bounded(sample) ELSE @]
         IN  IF IsLoss(sample)
             THEN [counted EXCEPT !.numberOfLosses = @ + 1]
             ELSE [counted EXCEPT
                      !.offsetSum = @ + (sample - offset),
                      !.offsetSumOfSquares = @ + (sample - offset) * (sample - offset),
                      !.empiricalDistribution = Append(@, sample)]

\* n_live, the samples that are not losses.
NumberOfLiveSamples(qa) == qa.numberOfSamples - qa.numberOfLosses

\* offset_sum / n_live + 0.1
GetAverage(qa) ==
    Frac(qa.offsetSum + offset * NumberOfLiveSamples(qa), NumberOfLiveSamples(qa))

\* 100 * n_losses / n_samples
GetLossPercentage(qa) == Frac(100 * qa.numberOfLosses, qa.numberOfSamples)

(* ------------------------------------------------------------------ *)
(* stabilizer                                                          *)
(* ------------------------------------------------------------------ *)

\* movingAverages holds each moving average times I (the sum of its window),
\* which keeps it exact; sigma / mu does not change with the factor.
NewStabilizer(i, k) ==
    [I |-> i, K |-> k, instantaneous |-> <<>>, movingAverages |-> <<>>]

\* An AddMeasurement that takes a moving average of a window not yet full.
AddMeasurementOfPartialWindow(st, x) ==
    LET inst == LastN(Append(st.instantaneous, x), st.I)
    IN  [st EXCEPT !.instantaneous = inst,
                   !.movingAverages =
                       LastN(Append(st.movingAverages, SumSeq(inst)), st.K)]

\* An AddMeasurement that keeps every moving average.
AddMeasurementKeepsAll(st, x) ==
    LET inst == LastN(Append(st.instantaneous, x), st.I)
    IN  IF Len(inst) < st.I
        THEN [st EXCEPT !.instantaneous = inst]
        ELSE [st EXCEPT !.instantaneous = inst,
                        !.movingAverages = Append(st.movingAverages, SumSeq(inst))]

\* An AddMeasurement whose moving average runs over every measurement so far.
AddMeasurementOfAllSamples(st, x) ==
    LET inst == Append(st.instantaneous, x)
    IN  IF Len(inst) < st.I
        THEN [st EXCEPT !.instantaneous = inst]
        ELSE [st EXCEPT !.instantaneous = inst,
                        !.movingAverages =
                            LastN(Append(st.movingAverages, SumSeq(inst)), st.K)]

AddMeasurement(st, x) ==
    LET inst == LastN(Append(st.instantaneous, x), st.I)
    IN  IF Len(inst) < st.I
        THEN [st EXCEPT !.instantaneous = inst]
        ELSE [st EXCEPT !.instantaneous = inst,
                        !.movingAverages =
                            LastN(Append(st.movingAverages, SumSeq(inst)), st.K)]

\* sigma / mu <= S over the K moving averages, sigma the population deviation:
\* sigma^2 / mu^2 = (K * sum(x^2) - sum(x)^2) / sum(x)^2.
IsStable(st) ==
    LET ma == st.movingAverages
        s1 == SumSeq(ma)
        s2 == SumSquares(ma)
    IN  /\ Len(ma) = st.K
        /\ s1 > 0
        /\ SDen * SDen * (st.K * s2 - s1 * s1) <= SNum * SNum * s1 * s1

(* ------------------------------------------------------------------ *)
(* The cancellation scopes                                             *)
(* ------------------------------------------------------------------ *)

Scopes == {"operating", "uploadLoadGeneratorOperator", "downloadLoadGeneratorOperator",
           "proberOperator", "networkActivity"}

OperatorScopes == {"uploadLoadGeneratorOperator", "downloadLoadGeneratorOperator",
                   "proberOperator"}

\* The tree with the prober's scope derived from networkActivityCtx instead of
\* operatingCtx.
ParentCtxNested(c) ==
    IF c = "operating" THEN "background"
    ELSE IF c = "proberOperator" THEN "networkActivity" ELSE "operating"

\* context.WithCancel(parent): the scope each context descends from.
ParentCtx(c) == IF c = "operating" THEN "background" ELSE "operating"

RECURSIVE DescendsFrom(_, _)
DescendsFrom(c, a) ==
    IF c = "background" THEN FALSE
    ELSE ParentCtx(c) = a \/ DescendsFrom(ParentCtx(c), a)

\* The scopes done after the cancel function of c has been called.
CancelCtx(done, c) == done \cup {c} \cup {d \in Scopes : DescendsFrom(d, c)}

(* ------------------------------------------------------------------ *)
(* lgc: the collection of load-generating connections                  *)
(* ------------------------------------------------------------------ *)

ErrUnlocked == "collection is unlocked"
ErrIndexTooLarge == "index too large"
PanicIndexOutOfRange == "panic: index out of range"

\* Get(idx) once Lock.TryLock() has failed (the mutex is locked).
GetLocked(lgcs, idx) ==
    IF idx > Len(lgcs) THEN [err |-> ErrIndexTooLarge, value |-> "nil"]
    ELSE IF idx < 0 \/ idx >= Len(lgcs)
         THEN [err |-> PanicIndexOutOfRange, value |-> "nil"]
         ELSE [err |-> "nil", value |-> lgcs[idx + 1]]

\* An Append that puts the connection first.
AppendLockedFront(lgcs, conn) == <<conn>> \o lgcs

\* Append(conn) once Lock.TryLock() has failed.
AppendLocked(lgcs, conn) == Append(lgcs, conn)

CollectionLen(lgcs) == Len(lgcs)

\* Get(idx) by a caller whose TryLock and Unlock nobody else sees.
CollectionGet(lock, lgcs, idx) ==
    IF lock = "unlocked" THEN [err |-> ErrUnlocked, value |-> "nil"]
    ELSE GetLocked(lgcs, idx)

(* ------------------------------------------------------------------ *)
(* The inputs of a run                                                 *)
(* ------------------------------------------------------------------ *)

Directions == {"download", "upload"}

\* rpm.ThroughputDataPoint: bytes per second and open connections.
ThroughputInputs ==
    { [Throughput |-> 100, Connections |-> 1],
      [Throughput |-> 200, Connections |-> 5] }

\* probe.ProbeDataPoint: Duration in ms, a multiple of RoundTripCount.
ProbeInputs ==
    { [Type |-> "SelfDown", Duration |-> 100,  RoundTripCount |-> 1],
      [Type |-> "SelfUp",   Duration |-> 200,  RoundTripCount |-> 1],
      [Type |-> "Foreign",  Duration |-> 1000, RoundTripCount |-> 10],
      [Type |-> "Foreign",  Duration |-> 800,  RoundTripCount |-> 2] }

\* What the probe stabilizer takes from a probe: its round trips per minute.
ProbeStabilizerInput(m) == (60000 * m.RoundTripCount) \div m.Duration

VARIABLES
    pc,                     \* where main is
    cancelled,              \* the scopes whose context is done
    cancelLog,              \* the cancel functions called, in order
    timeoutFired,           \* timeoutChannel is ready
    firstConnection,        \* per direction: connecting, started or failed
    handlesRead,            \* per direction: receives from the self-probe channel
    proberStarted,          \* rpm.CombinedProber has been called
    probesConsumed,         \* probe measurements taken from probeDataPointsChannel
    responsivenessIsStable,
    downloadThroughputIsStable,
    uploadThroughputIsStable,
    downloadThroughputStabilizer,
    uploadThroughputStabilizer,
    probeStabilizer,
    fed,                    \* the measurements given to a stabilizer on its own
    probeMeasurement,       \* the probe measurement taken last
    downloadThroughputMeasurement,  \* the download measurement taken last
    uploadThroughputMeasurement,    \* the upload measurement taken last
    selfRtts,
    selfRttsQualityAttenuation,
    foreignRtts,
    lastUploadThroughputRate,
    lastUploadThroughputOpenConnectionCount,
    lastDownloadThroughputRate,
    lastDownloadThroughputOpenConnectionCount,
    exitedBy,               \* how the loop was left: none, stable or timeout
    testRanToStability,
    p90Rpm,
    meanRpm,
    calculateExtendedStats,
    printQualityAttenuation,
    esIndex,                \* i of the extended-stats loop
    esIncorporated,         \* the connections whose stats were incorporated
    Lock,                   \* the collection's mutex: unlocked, or who locked it
    LGCs,                   \* the collection's connections
    lastCall,               \* the latest call on the collection and its result
    inCall,                 \* per caller: the Get or Append whose TryLock succeeded
    elements,               \* the slice given to CalculatePercentile
    percentile,
    percentileResult,       \* what CalculatePercentile was given and what it returned
    nextConnectionId,       \* the counter behind GenerateUniqueId
    idInCall,               \* per caller: what the add gave to the call not yet returned
    idsReturned,            \* the identifiers returned, in order of completion, and to whom
    otPc,                   \* where the caller of OrTimeout is
    timeout,
    fKind,                  \* what f does: returns, panics or blocks
    fDuration,              \* how long f runs before it returns or panics
    fState,
    fStarts,                \* how often f was started
    completed,              \* the channel completed is closed
    now,
    deadline,               \* when the channel of time.After(timeout) gets its value
    crashed,                \* the program has ended with f's panic
    mu,                     \* who holds the mutex of the condition variable
    waiterPc,               \* where WaitWithContext is
    waitResult,
    notifyList,             \* the goroutines waiting on the condition variable
    signalerPc,             \* where ContextSignaler is
    ctxtErr,                \* ctxt.Err() != nil
    conditionHolds,
    evaluatedUnlocked       \* WaitWithContext called condition without holding mu

ctxVars == <<cancelled, cancelLog>>
collVars == <<Lock, LGCs, lastCall, inCall>>
flagVars == <<responsivenessIsStable, downloadThroughputIsStable, uploadThroughputIsStable>>
stabilizerVars == <<downloadThroughputStabilizer, uploadThroughputStabilizer, probeStabilizer,
                    fed>>
rttVars == <<selfRtts, selfRttsQualityAttenuation, foreignRtts, probesConsumed,
             probeMeasurement>>
downloadVars == <<lastDownloadThroughputRate, lastDownloadThroughputOpenConnectionCount,
                   downloadThroughputMeasurement>>
uploadVars == <<lastUploadThroughputRate, lastUploadThroughputOpenConnectionCount,
                 uploadThroughputMeasurement>>
reportVars == <<testRanToStability, p90Rpm, meanRpm>>
statsVars == <<calculateExtendedStats, printQualityAttenuation, esIndex, esIncorporated>>
envVars == <<timeoutFired, firstConnection>>
startVars == <<handlesRead, proberStarted>>
measurementVars == <<flagVars, stabilizerVars, rttVars, downloadVars, uploadVars>>

percentileVars == <<elements, percentile, percentileResult>>
idVars == <<nextConnectionId, idInCall, idsReturned>>
orTimeoutVars == <<otPc, timeout, fKind, fDuration, fState, fStarts, completed, now, deadline,
                   crashed>>
waitVars == <<mu, waiterPc, waitResult, notifyList, signalerPc, ctxtErr, conditionHolds,
              evaluatedUnlocked>>
utilVars == <<percentileVars, idVars, orTimeoutVars, waitVars>>
programVars == <<pc, ctxVars, collVars, measurementVars, reportVars, statsVars, envVars,
                 startVars, exitedBy>>

vars == <<pc, ctxVars, collVars, measurementVars, reportVars, utilVars, statsVars, envVars,
          startVars, exitedBy>>

\* The goroutines that use a collection besides main.
Callers == {"g1", "g2"}

\* The connections they append.
Connections == {"lgcA", "lgcB"}

\* The indexes they ask for.
Indexes == 0..(MaxPool + 1)

Call(op, by, arg, err, value) ==
    [op |-> op, by |-> by, arg |-> arg, err |-> err, value |-> value]

NoCall == Call("none", "none", "nil", "nil", "nil")

\* No measurement has been taken from a channel yet.
NoMeasurement == [Type |-> "none"]

InitProgram ==
    /\ pc = "recvSelfDown"
    /\ cancelled = {}
    /\ cancelLog = <<>>
    /\ timeoutFired = FALSE
    /\ firstConnection = [d \in Directions |-> "connecting"]
    /\ handlesRead = [d \in Directions |-> 0]
    /\ proberStarted = FALSE
    /\ probesConsumed = 0
    /\ responsivenessIsStable = FALSE
    /\ downloadThroughputIsStable = FALSE
    /\ uploadThroughputIsStable = FALSE
    /\ fed = <<>>
    /\ uploadThroughputStabilizer = NewStabilizer(throughputI, K)
    /\ probeStabilizer = NewStabilizer(probeI, K)
    /\ probeMeasurement = NoMeasurement
    /\ downloadThroughputMeasurement = NoMeasurement
    /\ uploadThroughputMeasurement = NoMeasurement
    /\ selfRtts = <<>>
    /\ selfRttsQualityAttenuation = NewSimpleQualityAttenuation
    /\ foreignRtts = <<>>
    /\ lastUploadThroughputRate = 0
    /\ lastUploadThroughputOpenConnectionCount = 0
    /\ lastDownloadThroughputRate = 0
    /\ lastDownloadThroughputOpenConnectionCount = 0
    /\ exitedBy = "none"
    /\ testRanToStability = FALSE
    /\ p90Rpm = NotANumber
    /\ meanRpm = NotANumber
    /\ esIndex = 0
    /\ esIncorporated = <<>>
    /\ Lock = "unlocked"
    /\ LGCs = <<>>
    /\ lastCall = NoCall
    /\ inCall = [g \in Callers |-> NoCall]

\* CalculatePercentile has not been called.
NotCalled == [of |-> <<>>, outcome |-> "none", value |-> 0]

NoPercentile ==
    /\ elements = <<>>
    /\ percentile = 0
    /\ percentileResult = NotCalled

\* var nextConnectionId uint64 = 0
NoIds ==
    /\ nextConnectionId = 0
    /\ idInCall = [g \in Callers |-> 0]
    /\ idsReturned = <<>>

NoOrTimeout ==
    /\ otPc = "call"
    /\ timeout = 0
    /\ fKind = "returns"
    /\ fDuration = 0
    /\ fState = "notStarted"
    /\ fStarts = 0
    /\ completed = FALSE
    /\ now = 0
    /\ deadline = 0
    /\ crashed = FALSE

NoWait ==
    /\ mu = "unlocked"
    /\ waiterPc = "call"
    /\ waitResult = "none"
    /\ notifyList = {}
    /\ signalerPc = "call"
    /\ ctxtErr = FALSE
    /\ conditionHolds = FALSE
    /\ evaluatedUnlocked = FALSE

InitOthers ==
    /\ InitProgram
    /\ NoPercentile
    /\ NoIds
    /\ NoOrTimeout
    /\ NoWait

InitMain ==
    /\ InitOthers
    /\ downloadThroughputStabilizer = NewStabilizer(throughputI, K)

\* The command lines explored: the two optional reports both asked for or
\* both left out.
Init ==
    /\ InitMain
    /\ calculateExtendedStats \in BOOLEAN
    /\ printQualityAttenuation = calculateExtendedStats

(* ------------------------------------------------------------------ *)
(* What main's collaborators do                                        *)
(* ------------------------------------------------------------------ *)

\* rpm.LoadGenerator: the first connection of a direction has started its
\* transfer; it is in the collection and its handle is sent once.
FirstConnectionStarts(d) ==
    /\ firstConnection[d] = "connecting"
    /\ "networkActivity" \notin cancelled
    /\ firstConnection' = [firstConnection EXCEPT ![d] = "started"]
    /\ LGCs' = IF d = "download" THEN AppendLocked(LGCs, "lgc0") ELSE LGCs
    /\ UNCHANGED <<pc, ctxVars, Lock, lastCall, inCall, measurementVars, reportVars, utilVars, statsVars,
                   timeoutFired, startVars, exitedBy>>

\* The connections the download load generator opens after the first one.
LaterConnections == <<"lgc1", "lgc2", "lgc3", "lgc4">>

RECURSIVE AppendAll(_, _)
AppendAll(lgcs, conns) ==
    IF conns = <<>> THEN lgcs
    ELSE AppendAll(AppendLocked(lgcs, Head(conns)), Tail(conns))

\* rpm.LoadGenerator: the download load generator adds its batch of new
\* connections to the collection, under the collection's lock.
LoadGeneratorGrows ==
    /\ firstConnection["download"] = "started"
    /\ "downloadLoadGeneratorOperator" \notin cancelled
    /\ Lock = "unlocked"
    /\ Len(LGCs) = 1
    /\ LGCs' = AppendAll(LGCs, SubSeq(LaterConnections, 1, MaxPool - 1))
    /\ UNCHANGED <<pc, ctxVars, Lock, lastCall, inCall, measurementVars, reportVars, utilVars, statsVars,
                   envVars, startVars, exitedBy>>

\* rpm.LoadGenerator: the first connection of a direction is never established.
FirstConnectionFails(d) ==
    /\ firstConnection[d] = "connecting"
    /\ firstConnection' = [firstConnection EXCEPT ![d] = "failed"]
    /\ UNCHANGED <<pc, ctxVars, collVars, measurementVars, reportVars, utilVars, statsVars,
                   timeoutFired, startVars, exitedBy>>

\* timeoutat.TimeoutAt: the deadline passes and timeoutChannel becomes ready.
\* Nothing reads the channel once the loop is left.
TimerFires ==
    /\ ~timeoutFired
    /\ pc \in {"recvSelfDown", "recvSelfUp", "startProber", "loop"}
    /\ timeoutFired' = TRUE
    /\ UNCHANGED <<pc, ctxVars, collVars, measurementVars, reportVars, utilVars, statsVars,
                   firstConnection, startVars, exitedBy>>

(* ------------------------------------------------------------------ *)
(* main                                                                *)
(* ------------------------------------------------------------------ *)

\* The receive of the download handle followed at once by the prober's start,
\* the upload handle not waited for.
RecvSelfDownThenStart ==
    /\ pc = "recvSelfDown"
    /\ firstConnection["download"] = "started"
    /\ handlesRead["download"] = 0
    /\ handlesRead' = [handlesRead EXCEPT !["download"] = @ + 1]
    /\ pc' = "startProber"
    /\ UNCHANGED <<ctxVars, collVars, measurementVars, reportVars, utilVars, statsVars, envVars,
                   proberStarted, exitedBy>>

\* selfDownProbeConnection := <-selfDownProbeConnectionCommunicationChannel
RecvSelfDownProbeConnection ==
    /\ pc = "recvSelfDown"
    /\ firstConnection["download"] = "started"
    /\ handlesRead["download"] = 0
    /\ handlesRead' = [handlesRead EXCEPT !["download"] = @ + 1]
    /\ pc' = "recvSelfUp"
    /\ UNCHANGED <<ctxVars, collVars, measurementVars, reportVars, utilVars, statsVars, envVars,
                   proberStarted, exitedBy>>

\* selfUpProbeConnection := <-selfUpProbeConnectionCommunicationChannel
RecvSelfUpProbeConnection ==
    /\ pc = "recvSelfUp"
    /\ firstConnection["upload"] = "started"
    /\ handlesRead["upload"] = 0
    /\ handlesRead' = [handlesRead EXCEPT !["upload"] = @ + 1]
    /\ pc' = "startProber"
    /\ UNCHANGED <<ctxVars, collVars, measurementVars, reportVars, utilVars, statsVars, envVars,
                   proberStarted, exitedBy>>

\* probeDataPointsChannel := rpm.CombinedProber(...)
StartCombinedProber ==
    /\ pc = "startProber"
    /\ proberStarted' = TRUE
    /\ pc' = "loop"
    /\ UNCHANGED <<ctxVars, collVars, measurementVars, reportVars, utilVars, statsVars, envVars,
                   handlesRead, exitedBy>>

\* for !(responsivenessIsStable && downloadThroughputIsStable && uploadThroughputIsStable)
LoopCondition(r, d, u) == ~(r /\ d /\ u)

InLoop ==
    /\ pc = "loop"
    /\ LoopCondition(responsivenessIsStable, downloadThroughputIsStable,
                     uploadThroughputIsStable)

\* A flag that stays set once its stabilizer has been stable.
StableEver(was, stabilizer) == was \/ IsStable(stabilizer)

\* xIsStable = xStabilizer.IsStable(), right after AddMeasurement.
StableNow(was, stabilizer) == IsStable(stabilizer)

\* The download case recording the highest rate seen instead of the last.
DownloadCaseKeepsHighest(m) ==
    /\ InLoop
    /\ firstConnection["download"] = "started"
    /\ "downloadLoadGeneratorOperator" \notin cancelled
    /\ downloadThroughputStabilizer' = AddMeasurement(downloadThroughputStabilizer, m.Throughput)
    /\ downloadThroughputIsStable' =
           StableNow(downloadThroughputIsStable, downloadThroughputStabilizer')
    /\ IF m.Throughput > lastDownloadThroughputRate
       THEN /\ lastDownloadThroughputRate' = m.Throughput
            /\ lastDownloadThroughputOpenConnectionCount' = m.Connections
       ELSE UNCHANGED <<lastDownloadThroughputRate, lastDownloadThroughputOpenConnectionCount>>
    /\ downloadThroughputMeasurement' = m
    /\ UNCHANGED <<pc, ctxVars, collVars, responsivenessIsStable, uploadThroughputIsStable,
                   uploadThroughputStabilizer, probeStabilizer, fed, rttVars, uploadVars,
                   reportVars, utilVars, statsVars, envVars, startVars, exitedBy>>

\* case downloadThroughputMeasurement := <-downloadThroughputChannel
DownloadCase(m) ==
    /\ InLoop
    /\ firstConnection["download"] = "started"
    /\ "downloadLoadGeneratorOperator" \notin cancelled
    /\ downloadThroughputStabilizer' = AddMeasurement(downloadThroughputStabilizer, m.Throughput)
    /\ downloadThroughputIsStable' =
           StableNow(downloadThroughputIsStable, downloadThroughputStabilizer')
    /\ lastDownloadThroughputRate' = m.Throughput
    /\ lastDownloadThroughputOpenConnectionCount' = m.Connections
    /\ downloadThroughputMeasurement' = m
    /\ UNCHANGED <<pc, ctxVars, collVars, responsivenessIsStable, uploadThroughputIsStable,
                   uploadThroughputStabilizer, probeStabilizer, fed, rttVars, uploadVars,
                   reportVars, utilVars, statsVars, envVars, startVars, exitedBy>>

\* The upload case recording its rate and connections as the download's.
UploadCaseWritesDownload(m) ==
    /\ InLoop
    /\ firstConnection["upload"] = "started"
    /\ "uploadLoadGeneratorOperator" \notin cancelled
    /\ uploadThroughputStabilizer' = AddMeasurement(uploadThroughputStabilizer, m.Throughput)
    /\ uploadThroughputIsStable' =
           StableNow(uploadThroughputIsStable, uploadThroughputStabilizer')
    /\ lastDownloadThroughputRate' = m.Throughput
    /\ lastDownloadThroughputOpenConnectionCount' = m.Connections
    /\ uploadThroughputMeasurement' = m
    /\ UNCHANGED <<pc, ctxVars, collVars, responsivenessIsStable, downloadThroughputIsStable,
                   downloadThroughputStabilizer, probeStabilizer, fed, rttVars,
                   downloadThroughputMeasurement, lastUploadThroughputRate,
                   lastUploadThroughputOpenConnectionCount,
                   reportVars, utilVars, statsVars, envVars, startVars, exitedBy>>

\* case uploadThroughputMeasurement := <-uploadThroughputChannel
UploadCase(m) ==
    /\ InLoop
    /\ firstConnection["upload"] = "started"
    /\ "uploadLoadGeneratorOperator" \notin cancelled
    /\ uploadThroughputStabilizer' = AddMeasurement(uploadThroughputStabilizer, m.Throughput)
    /\ uploadThroughputIsStable' =
           StableNow(uploadThroughputIsStable, uploadThroughputStabilizer')
    /\ lastUploadThroughputRate' = m.Throughput
    /\ lastUploadThroughputOpenConnectionCount' = m.Connections
    /\ uploadThroughputMeasurement' = m
    /\ UNCHANGED <<pc, ctxVars, collVars, responsivenessIsStable, downloadThroughputIsStable,
                   downloadThroughputStabilizer, probeStabilizer, fed, rttVars, downloadVars,
                   reportVars, utilVars, statsVars, envVars, startVars, exitedBy>>

\* A Foreign measurement kept as one element of its whole duration.
ForeignElementsWhole(m) ==
    IF m.Type = "Foreign" THEN <<m.Duration>> ELSE <<>>

\* The elements one probe measurement adds to foreignRtts and to selfRtts.
ForeignElements(m) ==
    IF m.Type = "Foreign"
    THEN Repeat(m.Duration \div m.RoundTripCount, m.RoundTripCount)
    ELSE <<>>

SelfElements(m) ==
    IF m.Type \in {"SelfDown", "SelfUp"} THEN <<m.Duration>> ELSE <<>>

\* case probeMeasurement := <-probeDataPointsChannel
ProbeCase(m) ==
    /\ InLoop
    /\ proberStarted
    /\ "proberOperator" \notin cancelled
    /\ probesConsumed < MaxProbes
    /\ probeStabilizer' = AddMeasurement(probeStabilizer, ProbeStabilizerInput(m))
    /\ responsivenessIsStable' = StableNow(responsivenessIsStable, probeStabilizer')
    /\ foreignRtts' = foreignRtts \o ForeignElements(m)
    /\ selfRtts' = selfRtts \o SelfElements(m)
    /\ selfRttsQualityAttenuation' =
           IF printQualityAttenuation /\ SelfElements(m) # <<>>
           THEN AddSample(selfRttsQualityAttenuation, Seconds(m.Duration))
           ELSE selfRttsQualityAttenuation
    /\ probesConsumed' = probesConsumed + 1
    /\ probeMeasurement' = m
    /\ UNCHANGED <<pc, ctxVars, collVars, downloadThroughputIsStable, uploadThroughputIsStable,
                   downloadThroughputStabilizer, uploadThroughputStabilizer, fed, downloadVars,
                   uploadVars, reportVars, utilVars, statsVars, envVars, startVars, exitedBy>>

\* A break without the label: it leaves the select, not the loop.
TimeoutCaseBreaksSelect ==
    /\ InLoop
    /\ timeoutFired
    /\ timeoutFired' = FALSE
    /\ UNCHANGED <<pc, ctxVars, collVars, measurementVars, reportVars, utilVars, statsVars,
                   firstConnection, startVars, exitedBy>>

\* case <-timeoutChannel: break timeout
TimeoutCase ==
    /\ InLoop
    /\ timeoutFired
    /\ pc' = "afterLoop"
    /\ exitedBy' = "timeout"
    /\ UNCHANGED <<ctxVars, collVars, measurementVars, reportVars, utilVars, statsVars, envVars,
                   startVars>>

\* The loop condition is false: all three flags are set.
LoopEnds ==
    /\ pc = "loop"
    /\ ~LoopCondition(responsivenessIsStable, downloadThroughputIsStable,
                      uploadThroughputIsStable)
    /\ pc' = "afterLoop"
    /\ exitedBy' = "stable"
    /\ UNCHANGED <<ctxVars, collVars, measurementVars, reportVars, utilVars, statsVars, envVars,
                   startVars>>

\* The flag computed from the two throughput flags alone.
RanToStabilityOfThroughput(d, u, r) == d /\ u

\* (downloadThroughputIsStable && uploadThroughputIsStable && responsivenessIsStable)
RanToStability(d, u, r) == d /\ u /\ r

\* testRanToStability := (downloadThroughputIsStable && uploadThroughputIsStable && ...)
ComputeRanToStability ==
    /\ pc = "afterLoop"
    /\ testRanToStability' = RanToStability(downloadThroughputIsStable,
                                            uploadThroughputIsStable, responsivenessIsStable)
    /\ pc' = "cancelProber"
    /\ UNCHANGED <<ctxVars, collVars, measurementVars, p90Rpm, meanRpm, utilVars, statsVars, envVars,
                   startVars, exitedBy>>

\* Calling the cancel function of scope c at `at`, going on at `next`.
CancelStep(at, c, next) ==
    /\ pc = at
    /\ cancelled' = CancelCtx(cancelled, c)
    /\ cancelLog' = Append(cancelLog, c)
    /\ pc' = next
    /\ UNCHANGED <<collVars, measurementVars, reportVars, utilVars, statsVars, envVars, startVars,
                   exitedBy>>

\* proberOperatorCtxCancel()
StopProberOperator == CancelStep("cancelProber", "proberOperator", "cancelDownload")

\* downloadLoadGeneratorOperatorCtxCancel()
StopDownloadOperator ==
    CancelStep("cancelDownload", "downloadLoadGeneratorOperator", "cancelUpload")

\* networkActivityCtxCancel() called in the place of the upload operator's.
StopNetworkForUpload == CancelStep("cancelUpload", "networkActivity", "extendedStats")

\* uploadLoadGeneratorOperatorCtxCancel()
StopUploadOperator ==
    CancelStep("cancelUpload", "uploadLoadGeneratorOperator", "extendedStats")

\* The extended-stats loop entered without taking the lock.
ExtendedStatsBeginUnlocked ==
    /\ pc = "extendedStats"
    /\ IF calculateExtendedStats
       THEN /\ esIndex' = 0
            /\ pc' = "extendedStatsLoop"
       ELSE /\ pc' = "cancelNetwork"
            /\ UNCHANGED esIndex
    /\ UNCHANGED <<ctxVars, collVars, measurementVars, reportVars, utilVars,
                   calculateExtendedStats, printQualityAttenuation, esIncorporated, envVars,
                   startVars, exitedBy>>

\* if *calculateExtendedStats { ...Lock.Lock(); defer ...Lock.Unlock()
ExtendedStatsBegin ==
    /\ pc = "extendedStats"
    /\ IF calculateExtendedStats
       THEN /\ Lock = "unlocked"
            /\ Lock' = "main"
            /\ esIndex' = 0
            /\ pc' = "extendedStatsLoop"
       ELSE /\ pc' = "cancelNetwork"
            /\ UNCHANGED <<Lock, esIndex>>
    /\ UNCHANGED <<ctxVars, LGCs, lastCall, inCall, measurementVars, reportVars, utilVars,
                   calculateExtendedStats, printQualityAttenuation, esIncorporated, envVars,
                   startVars, exitedBy>>

\* for i := 0; i < collection.Len(); i++ { currentLgc, _ := collection.Get(i) ... }
\* and the deferred Unlock when the loop ends.
ExtendedStatsLoop ==
    /\ pc = "extendedStatsLoop"
    /\ IF esIndex < CollectionLen(LGCs)
       THEN LET got == CollectionGet(Lock, LGCs, esIndex)
            IN  /\ lastCall' = Call("Get", "main", esIndex, got.err, got.value)
                /\ esIncorporated' = Append(esIncorporated, got.value)
                /\ esIndex' = esIndex + 1
                /\ UNCHANGED <<pc, Lock>>
       ELSE /\ Lock' = "unlocked"
            /\ pc' = "cancelNetwork"
            /\ UNCHANGED <<lastCall, esIncorporated, esIndex>>
    /\ UNCHANGED <<ctxVars, LGCs, inCall, measurementVars, reportVars, utilVars,
                   calculateExtendedStats, printQualityAttenuation, envVars, startVars,
                   exitedBy>>

\* networkActivityCtxCancel()
StopNetworkActivity == CancelStep("cancelNetwork", "networkActivity", "cancelOperating")

\* operatingCtxCancel()
StopTheWorld == CancelStep("cancelOperating", "operating", "report")

\* 60.0 / float64(self + foreign): the sum not halved.
RpmOfSum(self, foreign) ==
    IF IsNumber(self) /\ IsNumber(foreign)
    THEN Frac(60000 * self.den * foreign.den,
              self.num * foreign.den + foreign.num * self.den)
    ELSE NotANumber

\* 60.0 / (float64(self + foreign) / 2.0), in ms: 60000 / ((self + foreign) / 2),
\* self and foreign fractions.
RpmOf(self, foreign) ==
    IF IsNumber(self) /\ IsNumber(foreign)
    THEN Frac(120000 * self.den * foreign.den,
              self.num * foreign.den + foreign.num * self.den)
    ELSE NotANumber

\* The percentiles taken from the trimmed series.
CalculateP90RpmOfTrimmed(self, foreign, selfTrimmed, foreignTrimmed) ==
    IF selfTrimmed = <<>> \/ foreignTrimmed = <<>> THEN NotANumber
    ELSE RpmOf(Frac(Percentile(selfTrimmed, 90), 1), Frac(Percentile(foreignTrimmed, 90), 1))

\* p90Rpm := 60.0 / (float64(selfProbeRoundTripTimeP90+foreignProbeRoundTripTimeP90) / 2.0)
\* with the percentiles of the whole series.
CalculateP90Rpm(self, foreign, selfTrimmed, foreignTrimmed) ==
    IF self = <<>> \/ foreign = <<>> THEN NotANumber
    ELSE RpmOf(Frac(Percentile(self, 90), 1), Frac(Percentile(foreign, 90), 1))

\* meanRpm := 60.0 / (float64(selfProbeRoundTripTimeMean+foreignProbeRoundTripTimeMean) / 2.0)
\* with the means of the trimmed series.
CalculateMeanRpm(self, foreign, selfTrimmed, foreignTrimmed) ==
    RpmOf(CalculateAverage(selfTrimmed), CalculateAverage(foreignTrimmed))

\* Calculate the RPM.
Report ==
    /\ pc = "report"
    /\ \E selfRttsTrimmed \in {DoubleSidedTrim(selfRtts, 10)} :
       \E foreignRttsTrimmed \in {DoubleSidedTrim(foreignRtts, 10)} :
          /\ p90Rpm' = CalculateP90Rpm(selfRtts, foreignRtts,
                                       selfRttsTrimmed, foreignRttsTrimmed)
          /\ meanRpm' = CalculateMeanRpm(selfRtts, foreignRtts,
                                         selfRttsTrimmed, foreignRttsTrimmed)
    /\ pc' = "done"
    /\ UNCHANGED <<ctxVars, collVars, measurementVars, testRanToStability, utilVars, statsVars,
                   envVars, startVars, exitedBy>>

Select ==
    \/ \E m \in ThroughputInputs : DownloadCase(m)
    \/ \E m \in ThroughputInputs : UploadCase(m)
    \/ \E m \in ProbeInputs : ProbeCase(m)
    \/ TimeoutCase

Main ==
    \/ RecvSelfDownProbeConnection
    \/ RecvSelfUpProbeConnection
    \/ StartCombinedProber
    \/ Select
    \/ LoopEnds
    \/ ComputeRanToStability
    \/ StopProberOperator
    \/ StopDownloadOperator
    \/ StopUploadOperator
    \/ ExtendedStatsBegin
    \/ ExtendedStatsLoop
    \/ StopNetworkActivity
    \/ StopTheWorld
    \/ Report

Environment ==
    \/ \E d \in Directions : FirstConnectionStarts(d)
    \/ \E d \in Directions : FirstConnectionFails(d)
    \/ LoadGeneratorGrows
    \/ TimerFires

Next == Main \/ Environment

Spec == Init /\ [][Next]_vars

\* The main goroutine keeps running, and select chooses among the ready cases
\* at random, so a case that stays ready is taken.
FairSpec == Spec /\ WF_vars(Main) /\ WF_vars(TimeoutCase)

(* ------------------------------------------------------------------ *)
(* The quality attenuation of the self probes on its own               *)
(* ------------------------------------------------------------------ *)

\* selfRtts.AddElement(d); if *printQualityAttenuation { ...AddSample(d) }
\* for the duration d (in ms) of a self probe.
SelfProbeSample(d) ==
    /\ selfRtts' = Append(selfRtts, d)
    /\ selfRttsQualityAttenuation' =
           IF printQualityAttenuation
           THEN AddSample(selfRttsQualityAttenuation, Seconds(d))
           ELSE selfRttsQualityAttenuation
    /\ UNCHANGED <<pc, ctxVars, collVars, flagVars, stabilizerVars, foreignRtts,
                   probesConsumed, probeMeasurement, downloadVars, uploadVars, reportVars, utilVars,
                   statsVars, envVars, startVars, exitedBy>>

\* Durations of self probes in ms, around the offset and around the threshold.
SampleDurations == {0, 100, 1000, 2000, 3000, 14900, 15000, 15100, 16000}

InitQA ==
    /\ InitMain
    /\ calculateExtendedStats = FALSE
    /\ printQualityAttenuation = TRUE

NextQA ==
    \E d \in SampleDurations :
        /\ Len(selfRtts) < MaxSamples
        /\ SelfProbeSample(d)

\* Any samples, up to MaxSamples of them.
SpecQA == InitQA /\ [][NextQA]_vars

\* The next sample of the ramp.
NextRamp ==
    /\ Len(selfRtts) < RampEnd
    /\ SelfProbeSample(100 * (Len(selfRtts) + 1))

\* The ramp of TestManySamples.
SpecRamp == InitQA /\ [][NextRamp]_vars

(* ------------------------------------------------------------------ *)
(* A stabilizer on its own, with any I and K                           *)
(* ------------------------------------------------------------------ *)

\* The measurements given to it.
Measurements == {0, 100, 200}

\* downloadThroughputStabilizer.AddMeasurement(x)
\* downloadThroughputIsStable = downloadThroughputStabilizer.IsStable()
Feed(x) ==
    /\ Len(fed) < MaxFed
    /\ fed' = Append(fed, x)
    /\ downloadThroughputStabilizer' = AddMeasurement(downloadThroughputStabilizer, x)
    /\ downloadThroughputIsStable' =
           StableNow(downloadThroughputIsStable, downloadThroughputStabilizer')
    /\ UNCHANGED <<pc, ctxVars, collVars, responsivenessIsStable, uploadThroughputIsStable,
                   uploadThroughputStabilizer, probeStabilizer, rttVars, downloadVars,
                   uploadVars, reportVars, utilVars, statsVars, envVars, startVars, exitedBy>>

InitStabilizer ==
    /\ InitOthers
    /\ calculateExtendedStats = FALSE
    /\ printQualityAttenuation = FALSE
    /\ \E i \in 1..MaxI, k \in 1..MaxK :
           downloadThroughputStabilizer = NewStabilizer(i, k)

NextStabilizer == \E x \in Measurements : Feed(x)

SpecStabilizer == InitStabilizer /\ [][NextStabilizer]_vars

(* ------------------------------------------------------------------ *)
(* The stable run: constant throughput 100 and probes of 0.1 s         *)
(* ------------------------------------------------------------------ *)

StableRunThroughputs == {m \in ThroughputInputs : m.Throughput = 100}

\* The probes whose round trips take 100 ms each.
StableRunProbes == {m \in ProbeInputs : m.Duration = 100 * m.RoundTripCount}

\* The select with the streams of the stable run; the deadline is not reached.
StableRunSelect ==
    \/ \E m \in StableRunThroughputs : DownloadCase(m)
    \/ \E m \in StableRunThroughputs : UploadCase(m)
    \/ \E m \in StableRunProbes : ProbeCase(m)

StableRunMain ==
    \/ RecvSelfDownProbeConnection
    \/ RecvSelfUpProbeConnection
    \/ StartCombinedProber
    \/ StableRunSelect
    \/ LoopEnds
    \/ ComputeRanToStability
    \/ StopProberOperator
    \/ StopDownloadOperator
    \/ StopUploadOperator
    \/ ExtendedStatsBegin
    \/ ExtendedStatsLoop
    \/ StopNetworkActivity
    \/ StopTheWorld
    \/ Report

NextStableRun ==
    \/ StableRunMain
    \/ \E d \in Directions : FirstConnectionStarts(d)
    \/ LoadGeneratorGrows

\* The streams keep delivering and main keeps running.
StableRunSpec == Init /\ [][NextStableRun]_vars /\ WF_vars(NextStableRun)

(* ------------------------------------------------------------------ *)
(* The cancel functions called in any order                            *)
(* ------------------------------------------------------------------ *)

CancelCall(c) ==
    /\ Len(cancelLog) < MaxCancelCalls
    /\ cancelled' = CancelCtx(cancelled, c)
    /\ cancelLog' = Append(cancelLog, c)
    /\ UNCHANGED <<pc, collVars, measurementVars, reportVars, utilVars, statsVars, envVars,
                   startVars, exitedBy>>

InitCtx == InitMain /\ calculateExtendedStats = FALSE /\ printQualityAttenuation = FALSE

NextCtx == \E c \in Scopes : CancelCall(c)

SpecCtx == InitCtx /\ [][NextCtx]_vars

(* ------------------------------------------------------------------ *)
(* A collection used by several goroutines                             *)
(* ------------------------------------------------------------------ *)

Crashed == lastCall.err = PanicIndexOutOfRange

Idle(g) == ~Crashed /\ inCall[g] = NoCall

otherVars == <<pc, ctxVars, measurementVars, reportVars, utilVars, statsVars, envVars, startVars,
               exitedBy>>

\* collection.Lock.Lock()
LockCall(g) ==
    /\ Idle(g)
    /\ Lock = "unlocked"
    /\ Lock' = g
    /\ lastCall' = Call("Lock", g, "nil", "nil", "nil")
    /\ UNCHANGED <<LGCs, inCall, otherVars>>

\* collection.Lock.Unlock(), by the goroutine that locked.
UnlockCall(g) ==
    /\ Idle(g)
    /\ Lock = g
    /\ Lock' = "unlocked"
    /\ lastCall' = Call("Unlock", g, "nil", "nil", "nil")
    /\ UNCHANGED <<LGCs, inCall, otherVars>>

\* Lock.TryLock() of a Get or an Append succeeds: the call holds the mutex.
TryLockSucceeds(g, op, arg) ==
    /\ Lock = "unlocked"
    /\ Lock' = g
    /\ inCall' = [inCall EXCEPT ![g] = Call(op, g, arg, "nil", "nil")]
    /\ lastCall' = Call("TryLock", g, arg, "nil", "nil")
    /\ UNCHANGED <<LGCs, otherVars>>

\* The error returned with the mutex left locked.
ReturnUnlockedKeepsLock(g) ==
    /\ ~Crashed
    /\ inCall[g] # NoCall
    /\ lastCall' = [inCall[g] EXCEPT !.err = ErrUnlocked]
    /\ inCall' = [inCall EXCEPT ![g] = NoCall]
    /\ UNCHANGED <<Lock, LGCs, otherVars>>

\* ... Lock.Unlock(); return fmt.Errorf("collection is unlocked")
ReturnUnlocked(g) ==
    /\ ~Crashed
    /\ inCall[g] # NoCall
    /\ Lock' = "unlocked"
    /\ lastCall' = [inCall[g] EXCEPT !.err = ErrUnlocked]
    /\ inCall' = [inCall EXCEPT ![g] = NoCall]
    /\ UNCHANGED <<LGCs, otherVars>>

\* collection.Get(idx)
GetCall(g, idx) ==
    /\ Idle(g)
    /\ \/ TryLockSucceeds(g, "Get", idx)
       \/ /\ Lock # "unlocked"
          /\ lastCall' = Call("Get", g, idx, GetLocked(LGCs, idx).err,
                              GetLocked(LGCs, idx).value)
          /\ UNCHANGED <<Lock, LGCs, inCall, otherVars>>

\* collection.Append(conn)
AppendCall(g, conn) ==
    /\ Idle(g)
    /\ Len(LGCs) < MaxPool
    /\ \/ TryLockSucceeds(g, "Append", conn)
       \/ /\ Lock # "unlocked"
          /\ LGCs' = AppendLocked(LGCs, conn)
          /\ lastCall' = Call("Append", g, conn, "nil", "nil")
          /\ UNCHANGED <<Lock, inCall, otherVars>>

\* collection.Len()
LenCall(g) ==
    /\ Idle(g)
    /\ lastCall' = Call("Len", g, "nil", "nil", CollectionLen(LGCs))
    /\ UNCHANGED <<Lock, LGCs, inCall, otherVars>>

NextColl ==
    \E g \in Callers :
        \/ LockCall(g)
        \/ UnlockCall(g)
        \/ \E idx \in Indexes : GetCall(g, idx)
        \/ \E conn \in Connections : AppendCall(g, conn)
        \/ LenCall(g)
        \/ ReturnUnlocked(g)

SpecColl == InitCtx /\ [][NextColl]_vars

(* ------------------------------------------------------------------ *)
(* utilities.CalculatePercentile                                       *)
(* ------------------------------------------------------------------ *)

\* The program's own variables while a utility is looked at on its own.
InitProgramIdle ==
    /\ InitProgram
    /\ downloadThroughputStabilizer = NewStabilizer(throughputI, K)
    /\ calculateExtendedStats = FALSE
    /\ printQualityAttenuation = FALSE

ElementValues == {5, 10, 20}

Percentiles == 0..100

\* The index computed from the product of the count and the percentile.
CalculatePercentileOfProduct(elems, p) ==
    LET sorted == Sorted(elems)
        elementsCount == Len(elems)
        percentileIdx == (elementsCount * p) \div 100
    IN  [elements |-> sorted,
         outcome |-> IF percentileIdx < elementsCount THEN "returned"
                     ELSE PanicIndexOutOfRange,
         value |-> IF percentileIdx < elementsCount THEN sorted[percentileIdx + 1] ELSE 0]

\* The slice as the call leaves it and the value returned; indexing at or
\* after the length panics.
CalculatePercentile(elems, p) ==
    LET sorted == Sorted(elems)
        elementsCount == Len(elems)
        percentileIdx == elementsCount * (p \div 100)
    IN  [elements |-> sorted,
         outcome |-> IF percentileIdx < elementsCount THEN "returned"
                     ELSE PanicIndexOutOfRange,
         value |-> IF percentileIdx < elementsCount THEN sorted[percentileIdx + 1] ELSE 0]

CalculatePercentileCall ==
    /\ percentileResult = NotCalled
    /\ LET r == CalculatePercentile(elements, percentile)
       IN  /\ elements' = r.elements
           /\ percentileResult' = [of |-> elements, outcome |-> r.outcome, value |-> r.value]
    /\ UNCHANGED <<percentile, programVars, idVars, orTimeoutVars, waitVars>>

InitPercentile ==
    /\ InitProgramIdle
    /\ NoIds
    /\ NoOrTimeout
    /\ NoWait
    /\ \E n \in 0..MaxElements : elements \in [1..n -> ElementValues]
    /\ percentile \in Percentiles
    /\ percentileResult = NotCalled

NextPercentile == CalculatePercentileCall

\* One call for any slice of up to MaxElements elements and any percentile.
SpecPercentile == InitPercentile /\ [][NextPercentile]_vars

(* ------------------------------------------------------------------ *)
(* utilities.GenerateUniqueId                                          *)
(* ------------------------------------------------------------------ *)

\* The counter declared in the function returned: every call starts at 0.
AddUint64OfFreshCounter(g) ==
    /\ idInCall[g] = 0
    /\ Len(idsReturned) < MaxIdCalls
    /\ nextConnectionId' = 1
    /\ idInCall' = [idInCall EXCEPT ![g] = 1]
    /\ UNCHANGED <<idsReturned, programVars, percentileVars, orTimeoutVars, waitVars>>

\* atomic.AddUint64(&nextConnectionId, 1), in a call of goroutine g: one
\* step that adds and gives the new value. The counter has 64 bits; the
\* calls explored stay far below 2^64.
AddUint64(g) ==
    /\ idInCall[g] = 0
    /\ nextConnectionId < MaxIdCalls
    /\ nextConnectionId' = nextConnectionId + 1
    /\ idInCall' = [idInCall EXCEPT ![g] = nextConnectionId']
    /\ UNCHANGED <<idsReturned, programVars, percentileVars, orTimeoutVars, waitVars>>

\* return, of the call of goroutine g.
GenerateUniqueIdReturns(g) ==
    /\ idInCall[g] # 0
    /\ idsReturned' = Append(idsReturned, [by |-> g, id |-> idInCall[g]])
    /\ idInCall' = [idInCall EXCEPT ![g] = 0]
    /\ UNCHANGED <<nextConnectionId, programVars, percentileVars, orTimeoutVars, waitVars>>

InitIds ==
    /\ InitProgramIdle
    /\ NoPercentile
    /\ NoIds
    /\ NoOrTimeout
    /\ NoWait

NextIds ==
    \E g \in Callers :
        \/ AddUint64(g)
        \/ GenerateUniqueIdReturns(g)

\* Up to MaxIdCalls calls by the goroutines of Callers, in any interleaving.
SpecIds == InitIds /\ [][NextIds]_vars

(* ------------------------------------------------------------------ *)
(* utilities.OrTimeout                                                 *)
(* ------------------------------------------------------------------ *)

FKinds == {"returns", "panics", "blocks"}

Timeouts == 0..MaxTimeout

\* The clock runs a little beyond the longest timeout.
Times == 0..(MaxTimeout + 1)

otherThanOrTimeout == <<programVars, percentileVars, idVars, waitVars>>

\* OrTimeout(f, timeout) up to its select: the channel is made, the goroutine
\* that runs f is started, and time.After(timeout) is armed.
OrTimeoutCalled ==
    /\ otPc = "call"
    /\ ~crashed
    /\ fState' = "running"
    /\ fStarts' = fStarts + 1
    /\ deadline' = now + timeout
    /\ otPc' = "select"
    /\ UNCHANGED <<timeout, fKind, fDuration, completed, now, crashed, otherThanOrTimeout>>

\* Time passes, counted from the call.
Tick ==
    /\ ~crashed
    /\ otPc # "call"
    /\ now + 1 \in Times
    /\ now' = now + 1
    /\ UNCHANGED <<otPc, timeout, fKind, fDuration, fState, fStarts, completed, deadline,
                   crashed, otherThanOrTimeout>>

\* f returns and the deferred close(completed) runs.
FReturns ==
    /\ ~crashed
    /\ fState = "running"
    /\ fKind = "returns"
    /\ now >= fDuration
    /\ fState' = "returned"
    /\ completed' = TRUE
    /\ UNCHANGED <<otPc, timeout, fKind, fDuration, fStarts, now, deadline, crashed,
                   otherThanOrTimeout>>

\* f panics.
FPanics ==
    /\ ~crashed
    /\ fState = "running"
    /\ fKind = "panics"
    /\ now >= fDuration
    /\ fState' = "panicking"
    /\ UNCHANGED <<otPc, timeout, fKind, fDuration, fStarts, completed, now, deadline,
                   crashed, otherThanOrTimeout>>

\* defer close(completed), run by the panic.
DeferredClose ==
    /\ ~crashed
    /\ fState = "panicking"
    /\ completed' = TRUE
    /\ fState' = "panicked"
    /\ UNCHANGED <<otPc, timeout, fKind, fDuration, fStarts, now, deadline, crashed,
                   otherThanOrTimeout>>

\* Nothing recovers the panic in the goroutine: after its deferred calls the
\* program ends, before or after the caller has come back from its select.
PanicEndsProgram ==
    /\ ~crashed
    /\ fState = "panicked"
    /\ crashed' = TRUE
    /\ UNCHANGED <<otPc, timeout, fKind, fDuration, fState, fStarts, completed, now, deadline,
                   otherThanOrTimeout>>

\* case <-completeChannel
SelectCompleted ==
    /\ ~crashed
    /\ otPc = "select"
    /\ completed
    /\ otPc' = "returned"
    /\ UNCHANGED <<timeout, fKind, fDuration, fState, fStarts, completed, now, deadline,
                   crashed, otherThanOrTimeout>>

\* case <-time.After(timeout)
SelectTimeAfter ==
    /\ ~crashed
    /\ otPc = "select"
    /\ now >= deadline
    /\ otPc' = "returned"
    /\ UNCHANGED <<timeout, fKind, fDuration, fState, fStarts, completed, now, deadline,
                   crashed, otherThanOrTimeout>>

InitOrTimeout ==
    /\ InitProgramIdle
    /\ NoPercentile
    /\ NoIds
    /\ NoWait
    /\ otPc = "call"
    /\ timeout \in Timeouts
    /\ fKind \in FKinds
    /\ fDuration \in Times
    /\ fState = "notStarted"
    /\ fStarts = 0
    /\ completed = FALSE
    /\ now = 0
    /\ deadline = 0
    /\ crashed = FALSE

NextOrTimeout ==
    \/ OrTimeoutCalled
    \/ Tick
    \/ FReturns
    \/ FPanics
    \/ DeferredClose
    \/ PanicEndsProgram
    \/ SelectCompleted
    \/ SelectTimeAfter

SpecOrTimeout == InitOrTimeout /\ [][NextOrTimeout]_vars

\* The goroutines and the clock keep running.
FairSpecOrTimeout ==
    /\ SpecOrTimeout
    /\ WF_vars(OrTimeoutCalled)
    /\ WF_vars(Tick)
    /\ WF_vars(FReturns)
    /\ WF_vars(FPanics)
    /\ WF_vars(DeferredClose)
    /\ WF_vars(PanicEndsProgram)
    /\ WF_vars(SelectCompleted)
    /\ WF_vars(SelectTimeAfter)

(* ------------------------------------------------------------------ *)
(* utilities.WaitWithContext and utilities.ContextSignaler             *)
(* ------------------------------------------------------------------ *)

otherThanWait == <<programVars, percentileVars, idVars, orTimeoutVars>>

\* mu.Lock(), at the start of WaitWithContext and at the end of c.Wait().
MuLock ==
    /\ waiterPc \in {"call", "relock"}
    /\ mu = "unlocked"
    /\ mu' = "waiter"
    /\ waiterPc' = "condition"
    /\ UNCHANGED <<waitResult, notifyList, signalerPc, ctxtErr, conditionHolds,
                   evaluatedUnlocked, otherThanWait>>

\* !(*condition)(), of the loop of WaitWithContext.
WaiterCondition ==
    /\ waiterPc = "condition"
    /\ waiterPc' = IF conditionHolds THEN "return" ELSE "ctxtErr"
    /\ evaluatedUnlocked' = (evaluatedUnlocked \/ mu # "waiter")
    /\ UNCHANGED <<mu, waitResult, notifyList, signalerPc, ctxtErr, conditionHolds,
                   otherThanWait>>

\* ctxt.Err() == nil, of the loop of WaitWithContext.
WaiterCtxtErr ==
    /\ waiterPc = "ctxtErr"
    /\ waiterPc' = IF ctxtErr THEN "return" ELSE "wait"
    /\ UNCHANGED <<mu, waitResult, notifyList, signalerPc, ctxtErr, conditionHolds,
                   evaluatedUnlocked, otherThanWait>>

\* c.Wait(): the goroutine joins the notify list and unlocks mu.
CondWait ==
    /\ waiterPc = "wait"
    /\ notifyList' = notifyList \cup {"waiter"}
    /\ mu' = "unlocked"
    /\ waiterPc' = "parked"
    /\ UNCHANGED <<waitResult, signalerPc, ctxtErr, conditionHolds, evaluatedUnlocked,
                   otherThanWait>>

\* c.Wait(): woken by a Broadcast.
CondWakes ==
    /\ waiterPc = "parked"
    /\ "waiter" \notin notifyList
    /\ waiterPc' = "relock"
    /\ UNCHANGED <<mu, waitResult, notifyList, signalerPc, ctxtErr, conditionHolds,
                   evaluatedUnlocked, otherThanWait>>

\* The result is whether the loop was left with the condition true.
WaitWithContextReturnsCondition ==
    /\ waiterPc = "return"
    /\ waitResult' = IF conditionHolds THEN "true" ELSE "false"
    /\ waiterPc' = "returned"
    /\ UNCHANGED <<mu, notifyList, signalerPc, ctxtErr, conditionHolds, evaluatedUnlocked,
                   otherThanWait>>

\* return ctxt.Err() == nil
WaitWithContextReturns ==
    /\ waiterPc = "return"
    /\ waitResult' = IF ctxtErr THEN "false" ELSE "true"
    /\ waiterPc' = "returned"
    /\ UNCHANGED <<mu, notifyList, signalerPc, ctxtErr, conditionHolds, evaluatedUnlocked,
                   otherThanWait>>

\* !(*condition)(), of the loop of ContextSignaler.
SignalerCondition ==
    /\ signalerPc \in {"call", "condition"}
    /\ signalerPc' = IF conditionHolds THEN "if" ELSE "ctxtErr"
    /\ UNCHANGED <<mu, waiterPc, waitResult, notifyList, ctxtErr, conditionHolds,
                   evaluatedUnlocked, otherThanWait>>

\* ctxt.Err() == nil, of the loop of ContextSignaler.
SignalerCtxtErr ==
    /\ signalerPc = "ctxtErr"
    /\ signalerPc' = IF ctxtErr THEN "if" ELSE "sleep"
    /\ UNCHANGED <<mu, waiterPc, waitResult, notifyList, ctxtErr, conditionHolds,
                   evaluatedUnlocked, otherThanWait>>

\* time.Sleep(st)
SignalerSleeps ==
    /\ signalerPc = "sleep"
    /\ signalerPc' = "condition"
    /\ UNCHANGED <<mu, waiterPc, waitResult, notifyList, ctxtErr, conditionHolds,
                   evaluatedUnlocked, otherThanWait>>

\* if ctxt.Err() != nil { c.Broadcast(); return }
SignalerBroadcasts ==
    /\ signalerPc = "if"
    /\ notifyList' = IF ctxtErr THEN {} ELSE notifyList
    /\ signalerPc' = "returned"
    /\ UNCHANGED <<mu, waiterPc, waitResult, ctxtErr, conditionHolds, evaluatedUnlocked,
                   otherThanWait>>

\* The context is cancelled.
CtxtCancelled ==
    /\ ~ctxtErr
    /\ ctxtErr' = TRUE
    /\ UNCHANGED <<mu, waiterPc, waitResult, notifyList, signalerPc, conditionHolds,
                   evaluatedUnlocked, otherThanWait>>

\* Another goroutine makes the condition true with mu held and broadcasts.
ConditionBecomesTrue ==
    /\ ~conditionHolds
    /\ mu = "unlocked"
    /\ conditionHolds' = TRUE
    /\ notifyList' = {}
    /\ UNCHANGED <<mu, waiterPc, waitResult, signalerPc, ctxtErr, evaluatedUnlocked,
                   otherThanWait>>

InitWait ==
    /\ InitProgramIdle
    /\ NoPercentile
    /\ NoIds
    /\ NoOrTimeout
    /\ NoWait

Waiter ==
    \/ MuLock
    \/ WaiterCondition
    \/ WaiterCtxtErr
    \/ CondWait
    \/ CondWakes
    \/ WaitWithContextReturns

Signaler ==
    \/ SignalerCondition
    \/ SignalerCtxtErr
    \/ SignalerSleeps
    \/ SignalerBroadcasts

NextWait ==
    \/ Waiter
    \/ Signaler
    \/ CtxtCancelled
    \/ ConditionBecomesTrue

SpecWait == InitWait /\ [][NextWait]_vars

\* The two goroutines keep running; nothing obliges the context to be
\* cancelled or the condition to become true.
FairSpecWait ==
    /\ SpecWait
    /\ WF_vars(Waiter)
    /\ WF_vars(Signaler)

(* ------------------------------------------------------------------ *)
(* Properties                                                          *)
(* ------------------------------------------------------------------ *)

BeforeLoop == pc \in {"recvSelfDown", "recvSelfUp", "startProber"}

TeardownOrder == <<"proberOperator", "downloadLoadGeneratorOperator",
                   "uploadLoadGeneratorOperator", "networkActivity", "operating">>

\* C1: on every exit of the loop the three operator scopes are cancelled
\* before network-activity and network-activity before operating; neither is
\* ever done while an operator scope is live, and a finished run has cancelled
\* all five.
C1_TeardownOrder ==
    /\ \A i \in DOMAIN cancelLog :
          /\ cancelLog[i] = "networkActivity" =>
                 \A o \in OperatorScopes : \E j \in 1..(i - 1) : cancelLog[j] = o
          /\ cancelLog[i] = "operating" =>
                 \E j \in 1..(i - 1) : cancelLog[j] = "networkActivity"
    /\ ("networkActivity" \in cancelled \/ "operating" \in cancelled) =>
           OperatorScopes \subseteq cancelled
    /\ cancelLog # <<>> => exitedBy \in {"stable", "timeout"}
    /\ pc \in {"report", "done"} => cancelled = Scopes

C1_Witness ==
    /\ pc = "done"
    /\ exitedBy = "timeout"
    /\ cancelLog = TeardownOrder

\* C2: the loop is left without the timeout only in a state where the latest
\* IsStable of all three stabilizers is true.
C2_StableExitNeedsAllStable ==
    (exitedBy = "stable" \/ (~BeforeLoop /\ pc # "loop" /\ ~timeoutFired)) =>
        /\ IsStable(downloadThroughputStabilizer)
        /\ IsStable(uploadThroughputStabilizer)
        /\ IsStable(probeStabilizer)

C2_Witness ==
    /\ pc = "afterLoop"
    /\ exitedBy = "stable"
    /\ ~timeoutFired
    /\ Len(selfRtts) + Len(foreignRtts) > 2

\* C3: testRanToStability is true exactly when the loop ended with all three
\* stable and false exactly when it ended in the timeout case.
C3_RanToStabilityTellsExit ==
    (~BeforeLoop /\ pc \notin {"loop", "afterLoop"}) =>
        /\ testRanToStability <=> exitedBy = "stable"
        /\ ~testRanToStability <=> exitedBy = "timeout"

C3_Witness ==
    /\ pc = "done"
    /\ exitedBy = "timeout"
    /\ ~testRanToStability
    /\ downloadThroughputIsStable
    /\ uploadThroughputIsStable

\* C4: once the deadline has fired while main is in its loop, main leaves the loop.
C4_DeadlineLeavesLoop == (pc = "loop" /\ timeoutFired) ~> (pc # "loop")

C4_Witness ==
    /\ pc = "afterLoop"
    /\ exitedBy = "timeout"
    /\ downloadThroughputIsStable
    /\ ~uploadThroughputIsStable
    /\ probesConsumed = MaxProbes

\* C5: when the first connection of a direction is never established, main
\* still ends once the deadline has fired, reporting that stability was not reached.
C5_FailedConnectionEndsByDeadline ==
    (timeoutFired /\ \E d \in Directions : firstConnection[d] = "failed")
        ~> (pc = "done" /\ ~testRanToStability)

\* C6: the prober is started only after both handles were received, no probe
\* measurement is consumed earlier, and each handle stream is read exactly once.
C6_ProberAfterBothHandles ==
    /\ \A d \in Directions : handlesRead[d] <= 1
    /\ proberStarted => \A d \in Directions : handlesRead[d] = 1
    /\ probesConsumed > 0 => proberStarted
    /\ (selfRtts # <<>> \/ foreignRtts # <<>>) => probesConsumed > 0
    /\ pc \notin {"recvSelfDown", "recvSelfUp"} => \A d \in Directions : handlesRead[d] = 1

C6_Witness ==
    /\ probesConsumed > 0
    /\ proberStarted
    /\ \A d \in Directions : handlesRead[d] = 1

\* C7: a Get or an Append called while the mutex is not locked returns
\* "collection is unlocked", does not change the pool and leaves the mutex
\* unlocked; called while it is locked, it leaves the mutex as it is.
C7_CallsOnUnlockedCollection ==
    [][LET c == lastCall'
       IN  /\ c.op = "TryLock" => (Lock = "unlocked" /\ LGCs' = LGCs)
           /\ (c.op \in {"Get", "Append"} /\ c.by \in Callers) =>
                  IF inCall[c.by] # NoCall
                  THEN /\ c.err = ErrUnlocked
                       /\ c.value = "nil"
                       /\ LGCs' = LGCs
                       /\ Lock' = "unlocked"
                  ELSE /\ Lock # "unlocked"
                       /\ c.err # ErrUnlocked
                       /\ Lock' = Lock]_vars

C7_Witness ==
    /\ lastCall.op = "Append"
    /\ lastCall.err = ErrUnlocked
    /\ Lock = "unlocked"
    /\ LGCs # <<>>

\* C8: the pool never gets shorter, every handle keeps its index, and a
\* successful Append adds exactly its handle, at the last index.
C8_PoolGrowsAtTheEnd ==
    [][/\ Len(LGCs') >= Len(LGCs)
       /\ SubSeq(LGCs', 1, Len(LGCs)) = LGCs
       /\ IF lastCall'.op = "Append" /\ lastCall'.err = "nil"
          THEN /\ Len(LGCs') = Len(LGCs) + 1
               /\ LGCs'[Len(LGCs')] = lastCall'.arg
          ELSE LGCs' = LGCs]_vars

C8_Witness ==
    /\ lastCall.op = "Append"
    /\ lastCall.err = "nil"
    /\ Len(LGCs) = MaxPool
    /\ LGCs[1] = "lgcA"
    /\ LGCs[Len(LGCs)] = "lgcB"

\* C9: cancelling operating cancels all scopes, cancelling one of its four
\* children cancels that child alone, and a cancelled scope stays cancelled.
C9_OneLevelHierarchy ==
    [][LET c == cancelLog'[Len(cancelLog')]
       IN  /\ cancelled \subseteq cancelled'
           /\ c = "operating" => cancelled' = Scopes
           /\ c # "operating" => cancelled' = cancelled \cup {c}]_vars

C9_Witness ==
    /\ Len(cancelLog) = 3
    /\ cancelLog[1] = "networkActivity"
    /\ cancelLog[2] = "proberOperator"
    /\ cancelLog[3] = "operating"
    /\ cancelled = Scopes

\* Greatest common divisor, and equality of two fractions as numbers.
RECURSIVE Gcd(_, _)
Gcd(a, b) == IF b = 0 THEN a ELSE Gcd(b, a % b)

Lowest(q) == LET g == Gcd(q.num, q.den) IN Frac(q.num \div g, q.den \div g)

SameNumber(p, q) == IsNumber(p) /\ IsNumber(q) /\ Lowest(p) = Lowest(q)

\* C10: the reported p90Rpm is 60 / mean(P90 of selfRtts, P90 of foreignRtts)
\* over the whole series, and meanRpm is 60 / mean of the means of the two
\* series trimmed by 10 % on both sides.
C10_ReportFormulas ==
    (pc = "done" /\ selfRtts # <<>> /\ foreignRtts # <<>>) =>
        \E st \in {DoubleSidedTrim(selfRtts, 10)}, ft \in {DoubleSidedTrim(foreignRtts, 10)} :
            /\ SameNumber(p90Rpm,
                          Frac(2 * 60000, Percentile(selfRtts, 90) + Percentile(foreignRtts, 90)))
            /\ SameNumber(meanRpm,
                          Frac(2 * 60000 * Len(st) * Len(ft),
                               SumSeq(st) * Len(ft) + SumSeq(ft) * Len(st)))

C10_Witness ==
    /\ pc = "done"
    /\ selfRtts # <<>>
    /\ Len(foreignRtts) = 12
    /\ Percentile(foreignRtts, 90) = 400
    /\ Percentile(DoubleSidedTrim(foreignRtts, 10), 90) = 100
    /\ IsNumber(p90Rpm)
    /\ IsNumber(meanRpm)

\* C11: a Foreign measurement with round-trip count n adds n elements to
\* foreignRtts, each the n-th part of its duration, and nothing to selfRtts; a
\* SelfDown or SelfUp measurement adds its duration as one element to selfRtts
\* and nothing to foreignRtts; nothing else changes the two series.
C11_ProbeFeedsItsSeries ==
    [][IF probesConsumed' # probesConsumed
       THEN LET m == probeMeasurement'
                old == Len(foreignRtts)
            IN  /\ probesConsumed' = probesConsumed + 1
                /\ m.Type = "Foreign" =>
                       /\ Len(foreignRtts') = old + m.RoundTripCount
                       /\ SubSeq(foreignRtts', 1, old) = foreignRtts
                       /\ \A i \in (old + 1)..Len(foreignRtts') :
                              foreignRtts'[i] * m.RoundTripCount = m.Duration
                       /\ selfRtts' = selfRtts
                /\ m.Type \in {"SelfDown", "SelfUp"} =>
                       /\ selfRtts' = Append(selfRtts, m.Duration)
                       /\ foreignRtts' = foreignRtts
       ELSE selfRtts' = selfRtts /\ foreignRtts' = foreignRtts]_vars

C11_Witness ==
    /\ probeMeasurement.Type = "Foreign"
    /\ probeMeasurement.RoundTripCount = 10
    /\ Len(foreignRtts) = 12
    /\ foreignRtts[12] = 100
    /\ Len(selfRtts) = 1

\* C12: with both throughput streams at 100 and self and foreign probes of
\* 0.1 s per round trip, main ends having run to stability, and with samples
\* of both kinds gathered both reported RPM values are 600.
C12_StableRunReports600 ==
    <>[](/\ pc = "done"
         /\ exitedBy = "stable"
         /\ testRanToStability
         /\ (selfRtts # <<>> /\ foreignRtts # <<>>) =>
                /\ SameNumber(p90Rpm, Frac(600, 1))
                /\ SameNumber(meanRpm, Frac(600, 1)))

C12_Witness ==
    /\ pc = "done"
    /\ testRanToStability
    /\ Len(selfRtts) = 2
    /\ Len(foreignRtts) = 10
    /\ lastDownloadThroughputRate = 100
    /\ lastUploadThroughputRate = 100
    /\ p90Rpm.num = 600 * p90Rpm.den
    /\ meanRpm.num = 600 * meanRpm.den

\* C13: after the loop was left through the timeout, the report holds a
\* numeric P90 RPM and a numeric trimmed-mean RPM, whatever the numbers of
\* self and foreign samples gathered.
C13_TimeoutRunReportsNumbers ==
    (pc = "done" /\ exitedBy = "timeout") => (IsNumber(p90Rpm) /\ IsNumber(meanRpm))

\* C14: the reported throughput and connection count of a direction are those
\* of the last measurement taken from its stream, and 0 and 0 when none was.
C14_LastThroughputReported ==
    /\ IF downloadThroughputMeasurement = NoMeasurement
       THEN lastDownloadThroughputRate = 0 /\ lastDownloadThroughputOpenConnectionCount = 0
       ELSE /\ lastDownloadThroughputRate = downloadThroughputMeasurement.Throughput
            /\ lastDownloadThroughputOpenConnectionCount =
                   downloadThroughputMeasurement.Connections
    /\ IF uploadThroughputMeasurement = NoMeasurement
       THEN lastUploadThroughputRate = 0 /\ lastUploadThroughputOpenConnectionCount = 0
       ELSE /\ lastUploadThroughputRate = uploadThroughputMeasurement.Throughput
            /\ lastUploadThroughputOpenConnectionCount =
                   uploadThroughputMeasurement.Connections

C14_Witness ==
    /\ pc = "done"
    /\ downloadThroughputStabilizer.movingAverages = <<200, 100>>
    /\ lastDownloadThroughputRate = 100
    /\ lastDownloadThroughputOpenConnectionCount = 1
    /\ uploadThroughputMeasurement = NoMeasurement
    /\ lastUploadThroughputRate = 0

\* C15: main takes the download collection's lock before the first Len of the
\* extended-stats loop, holds it across every Len and Get, and releases it
\* once, when the loop ends; every Get of the loop returns the connection at
\* its index; the loop runs after the three operator scopes were cancelled
\* and before networkActivity is.
C15_ExtendedStatsUnderLock ==
    [][/\ (Lock # "main" /\ Lock' = "main") =>
              /\ pc = "extendedStats"
              /\ pc' = "extendedStatsLoop"
              /\ lastCall' = lastCall
       /\ (Lock = "main" /\ Lock' # "main") =>
              /\ pc = "extendedStatsLoop"
              /\ pc' = "cancelNetwork"
              /\ esIndex = Len(LGCs)
              /\ Lock' = "unlocked"
       /\ pc' = "extendedStatsLoop" =>
              /\ Lock' = "main"
              /\ OperatorScopes \subseteq cancelled'
              /\ "networkActivity" \notin cancelled'
       /\ (pc = "extendedStatsLoop" /\ pc' = "extendedStatsLoop") =>
              /\ esIndex < Len(LGCs)
              /\ lastCall' = Call("Get", "main", esIndex, "nil", LGCs[esIndex + 1])
              /\ esIncorporated' = Append(esIncorporated, LGCs[esIndex + 1])
              /\ LGCs' = LGCs
       /\ (calculateExtendedStats /\ pc' = "cancelNetwork") =>
              /\ esIncorporated' = LGCs'
              /\ Lock' = "unlocked"]_vars

C15_Witness ==
    /\ pc = "cancelNetwork"
    /\ calculateExtendedStats
    /\ Lock = "unlocked"
    /\ Len(LGCs) = MaxPool
    /\ esIncorporated = LGCs
    /\ lastCall = Call("Get", "main", MaxPool - 1, "nil", LGCs[MaxPool])

\* The samples a quality attenuation was given as the durations d, and those
\* of them that are not above the loss threshold.
SamplesOf(durations) == [i \in 1..Len(durations) |-> durations[i] \div 100]

LiveOf(durations) ==
    SelectSeq(SamplesOf(durations), LAMBDA x : x <= latencyEqLossThreshold)

LossesOf(durations) ==
    SelectSeq(SamplesOf(durations), LAMBDA x : x > latencyEqLossThreshold)

\* C16: a sample is a loss only when it is above 15.0 s; the sample of
\* exactly 15.0 s is live: it is not counted as a loss and it enters the
\* offset aggregates and the distribution.  On the ramp this leaves the
\* samples 15.1 s to 15.9 s as the losses: 9 of the 159 samples.
C16_LossOnlyAboveThreshold ==
    LET n == Len(selfRtts)
        qa == selfRttsQualityAttenuation
    IN  /\ qa.numberOfSamples = n
        /\ qa.numberOfLosses = IF n > 150 THEN n - 150 ELSE 0
        /\ Len(qa.empiricalDistribution) = IF n > 150 THEN 150 ELSE n
        /\ n >= 150 =>
               /\ selfRtts[150] = 15000
               /\ qa.empiricalDistribution[150] = latencyEqLossThreshold
               /\ qa.maximumLatency = latencyEqLossThreshold
               /\ qa.minimumLatency = 1
               /\ qa.offsetSum = 11175
               /\ qa.offsetSumOfSquares = 1113775
        /\ n = RampEnd => (qa.numberOfSamples = 159 /\ qa.numberOfLosses = 9)

C16_Witness ==
    /\ Len(selfRtts) = RampEnd
    /\ selfRtts[RampEnd] = 15900
    /\ selfRttsQualityAttenuation.numberOfSamples = 159
    /\ selfRttsQualityAttenuation.numberOfLosses = 9
    /\ selfRttsQualityAttenuation.maximumLatency = 150

\* C17: a sample counted as a loss adds one to n_samples and to n_losses and
\* leaves offset_sum, offset_sum_of_squares and the distribution as they are;
\* the maximum is never above the threshold; 0 <= n_losses <= n_samples and
\* the loss percentage is 100 * n_losses / n_samples.
C17_LossLeavesAggregates ==
    [][LET qa == selfRttsQualityAttenuation
           qb == selfRttsQualityAttenuation'
           sample == selfRtts'[Len(selfRtts')] \div 100
       IN  /\ (qb.numberOfLosses # qa.numberOfLosses) <=> (sample > latencyEqLossThreshold)
           /\ (qb.numberOfLosses # qa.numberOfLosses) =>
                  /\ qb.numberOfSamples = qa.numberOfSamples + 1
                  /\ qb.numberOfLosses = qa.numberOfLosses + 1
                  /\ qb.offsetSum = qa.offsetSum
                  /\ qb.offsetSumOfSquares = qa.offsetSumOfSquares
                  /\ qb.empiricalDistribution = qa.empiricalDistribution
           /\ qb.maximumLatency <= latencyEqLossThreshold
           /\ 0 <= qb.numberOfLosses
           /\ qb.numberOfLosses <= qb.numberOfSamples
           /\ qb.numberOfLosses = Len(LossesOf(selfRtts'))
           /\ SameNumber(GetLossPercentage(qb),
                         Frac(100 * Len(LossesOf(selfRtts')), Len(selfRtts')))]_vars

C17_Witness ==
    /\ selfRtts = <<2000, 16000, 15100>>
    /\ selfRttsQualityAttenuation.numberOfSamples = 3
    /\ selfRttsQualityAttenuation.numberOfLosses = 2
    /\ selfRttsQualityAttenuation.offsetSum = 19
    /\ selfRttsQualityAttenuation.empiricalDistribution = <<20>>

\* C18: offset_sum is the sum of x - 0.1 and offset_sum_of_squares the sum of
\* (x - 0.1)^2 over the live samples x, and the average is the mean of the
\* live samples; the samples 1, 2, 3 give 5.7, 12.83 and 2.
C18_OffsetAggregates ==
    LET qa == selfRttsQualityAttenuation
        live == LiveOf(selfRtts)
        shifted == [i \in 1..Len(live) |-> live[i] - offset]
    IN  /\ qa.offsetSum = SumSeq(shifted)
        /\ qa.offsetSumOfSquares = SumSquares(shifted)
        /\ NumberOfLiveSamples(qa) = Len(live)
        /\ live # <<>> => SameNumber(GetAverage(qa), Frac(SumSeq(live), Len(live)))
        /\ selfRtts = <<1000, 2000, 3000>> =>
               /\ qa.offsetSum = 57
               /\ qa.offsetSumOfSquares = 1283
               /\ SameNumber(GetAverage(qa), Frac(20, 1))

C18_Witness ==
    /\ selfRtts = <<1000, 2000, 3000>>
    /\ selfRttsQualityAttenuation.offsetSum = 57
    /\ selfRttsQualityAttenuation.numberOfLosses = 0

\* Every measurement given so far is the same one.
FedConstant == \A i \in 1..Len(fed) : fed[i] = fed[1]

\* C19: a stabilizer that has received fewer than I measurements has reported
\* unstable after each of them.
C19_UnstableBelowWindow ==
    Len(fed) < downloadThroughputStabilizer.I =>
        /\ ~downloadThroughputIsStable
        /\ ~IsStable(downloadThroughputStabilizer)

C19_Witness ==
    /\ downloadThroughputStabilizer.I = 2
    /\ downloadThroughputStabilizer.K = 1
    /\ fed = <<100>>
    /\ ~downloadThroughputIsStable

RECURSIVE StabilizerAfter(_, _)
StabilizerAfter(st, n) ==
    IF n = 0 THEN NewStabilizer(st.I, st.K)
    ELSE AddMeasurement(StabilizerAfter(st, n - 1), fed[n])

\* The measurements given are n times a constant c and then j times 2c.
StepAfter(n, j) ==
    /\ Len(fed) = n + j
    /\ \A i \in 1..n : fed[i] = fed[1]
    /\ \A i \in (n + 1)..(n + j) : fed[i] = 2 * fed[1]

DownloadState == <<downloadThroughputStabilizer, downloadThroughputIsStable, downloadVars>>
UploadState == <<uploadThroughputStabilizer, uploadThroughputIsStable, uploadVars>>
ProbeState == <<probeStabilizer, responsivenessIsStable, selfRtts, foreignRtts,
                probesConsumed, probeMeasurement>>
OutsideTheStreams == <<pc, ctxVars, collVars, reportVars, statsVars, envVars, startVars,
                       exitedBy, fed>>

\* Each flag is what its stabilizer answers after the stream's latest measurement.
FlagsFollowStabilizers ==
    /\ downloadThroughputIsStable' = IsStable(downloadThroughputStabilizer')
    /\ uploadThroughputIsStable' = IsStable(uploadThroughputStabilizer')
    /\ responsivenessIsStable' = IsStable(probeStabilizer')

C23_BelowHundredIsTheSmallest ==
    (percentileResult.outcome # "none" /\ Len(percentileResult.of) > 0
         /\ percentile \in 0..99) =>
        /\ Len(elements) * (percentile \div 100) = 0
        /\ percentileResult.outcome = "returned"
        /\ \E i \in 1..Len(percentileResult.of) : percentileResult.value = percentileResult.of[i]
        /\ \A i \in 1..Len(percentileResult.of) : percentileResult.value <= percentileResult.of[i]

\* The 99th percentile of 20, 5, 10 is 5.
C23_Witness ==
    /\ percentileResult = [of |-> <<20, 5, 10>>, outcome |-> "returned", value |-> 5]
    /\ percentile = 99
    /\ elements = <<5, 10, 20>>

\* C24: for a non-empty slice and a percentile of 0 to 100 the call returns
\* an element of the slice and does not index outside it.
C24_NeverOutsideTheSlice ==
    (percentileResult.outcome # "none" /\ Len(percentileResult.of) > 0
         /\ percentile \in 0..100) =>
        /\ percentileResult.outcome = "returned"
        /\ \E i \in 1..Len(percentileResult.of) : percentileResult.value = percentileResult.of[i]

\* C25: with the lock held, Get(idx) returns the handle at idx for
\* 0 <= idx < Len() and the error "index too large" for every idx >= Len(),
\* idx = Len() and Get(0) on an empty pool included; it never indexes outside
\* the pool.
C25_GetAtOrBeyondLenIsAnError ==
    (lastCall.op = "Get" /\ lastCall.err # ErrUnlocked) =>
        IF lastCall.arg < Len(LGCs)
        THEN lastCall.err = "nil" /\ lastCall.value = LGCs[lastCall.arg + 1]
        ELSE lastCall.err = ErrIndexTooLarge

\* C26: a Get or an Append that does not return "collection is unlocked" was
\* called by the goroutine that holds the lock.
C26_OnlyTheHolderSucceeds ==
    (lastCall.op \in {"Get", "Append"} /\ lastCall.by \in Callers
         /\ lastCall.err # ErrUnlocked) =>
        Lock = lastCall.by

\* The identifiers returned are pairwise distinct, the first one given is 1,
\* and those returned to one goroutine increase.
DistinctAndIncreasing ==
    /\ \A i, j \in 1..Len(idsReturned) :
           i # j => idsReturned[i].id # idsReturned[j].id
    /\ nextConnectionId >= 1 =>
           \/ \E g \in Callers : idInCall[g] = 1
           \/ \E i \in 1..Len(idsReturned) : idsReturned[i].id = 1
    /\ \A i, j \in 1..Len(idsReturned) :
           (i < j /\ idsReturned[i].by = idsReturned[j].by) =>
               idsReturned[i].id < idsReturned[j].id

\* C27 as stated: moreover the n-th call to complete has returned a value
\* in 1..n.
C27_NthCompletedIsAtMostN ==
    /\ DistinctAndIncreasing
    /\ \A n \in 1..Len(idsReturned) : idsReturned[n].id \in 1..n

\* C27: the identifiers returned are pairwise distinct, the first one given
\* is 1, those returned to one goroutine increase, and a call that completes
\* has returned a value in 1..m for the m calls that have done their add by
\* then.
C27_UniqueIds ==
    /\ DistinctAndIncreasing
    /\ \A n \in 1..Len(idsReturned) : idsReturned[n].id \in 1..nextConnectionId
    /\ Len(idsReturned) + Cardinality({g \in Callers : idInCall[g] # 0}) = nextConnectionId

\* g2's call, started after g1's, completes before it.
C27_Witness ==
    idsReturned = <<[by |-> "g2", id |-> 2], [by |-> "g1", id |-> 1],
                    [by |-> "g2", id |-> 3], [by |-> "g1", id |-> 4]>>

\* C28: OrTimeout returns in every run, whether f returns, panics or never
\* ends.
C28_OrTimeoutAlwaysReturns == <>(otPc = "returned")

\* OrTimeout returns in every run in which f does not panic.
OrTimeoutReturnsWithoutPanic == (fKind # "panics") => <>(otPc = "returned")

\* f is started once, and OrTimeout does not return before f has completed
\* or the timeout has elapsed.
OrTimeoutSafety ==
    /\ fStarts <= 1
    /\ otPc # "call" => fStarts = 1
    /\ otPc = "returned" => (completed \/ now >= deadline)

\* C29: WaitWithContext returns true only if the condition held when it left
\* the loop and the context is not cancelled, returns false whenever the
\* context is cancelled when it returns, calls condition only with mu held,
\* and returns with mu locked.
C29_WaitWithContextResult ==
    [][/\ (waiterPc # "returned" /\ waiterPc' = "returned") =>
              /\ waitResult' \in {"true", "false"}
              /\ waitResult' = "true" => (conditionHolds /\ ~ctxtErr)
              /\ ctxtErr => waitResult' = "false"
              /\ mu = "waiter" /\ mu' = "waiter"
       /\ ~evaluatedUnlocked'
       /\ waiterPc' \in {"condition", "ctxtErr", "wait", "return", "returned"} =>
              mu' = "waiter"]_vars

\* It has returned false with the condition true, the context cancelled.
C29_Witness ==
    /\ waiterPc = "returned"
    /\ waitResult = "false"
    /\ conditionHolds
    /\ ctxtErr
    /\ mu = "waiter"
    /\ signalerPc = "returned"

\* C30: once the context is cancelled with the waiter in WaitWithContext,
\* WaitWithContext eventually returns false.
C30_CancelWakesTheWaiter ==
    (ctxtErr /\ waiterPc # "returned") ~> (waiterPc = "returned" /\ waitResult = "false")

====
